---- MODULE Spec2Model ----
(***************************************************************************)
(* Model of package state (pkg/state/handler.go): a Runner owns an ordered *)
(* chain of Handlers and one State; Run wraps the caller's context with a  *)
(* cancel function, stores it in State.stop and walks the chain.           *)
(* The example handlers FinalizerHandler and DeletionHandler and the       *)
(* option WithLogger are modelled as well.                                 *)
(***************************************************************************)
EXTENDS Integers, Sequences, FiniteSets, TLC

(* ------------------------------ bounds -------------------------------- *)
\* longest handler chain
MaxHandlers == 3
\* most handlers passed to one AddHandlers call
MaxAdd == 2
\* most Run invocations on one Runner
MaxRuns == 2
\* most Stop() calls from outside the handlers during one Run
MaxExtStops == 1
\* most options passed to New
MaxOpts == 3
\* most Stop() calls the stopping example handler makes
MaxStopCalls == 2

(* ------------------------------ values -------------------------------- *)
\* the nil error
Nil == "nil"
\* the nil func value of State.stop before the first Run
NilFunc == 0
\* error returned by the failing example handler
ErrHandler == "E1"
\* errors returned by the client
ErrUpdate == "EUpdate"
ErrDelete == "EDelete"
\* stands for the result of a client call that has not returned
Pending == "pending"
\* zero value of logr.Logger, zero value of client.Client
ZeroLogger == "L0"
NilClient == "c0"
Loggers == {"L0", "L1", "L2"}
Clients == {"c1", "c2"}
\* the finalizer key the example handlers are built with
Key == "finalizer"
\* handlers: HandlerFunc values the chain can hold
Kinds == {"noop", "err", "stop", "finalizer", "deletion"}

VARIABLES
  stop,       \* State.stop: NilFunc, or the scope whose cancel func it holds
  client,     \* State.client
  log,        \* State.log
  handlers,   \* Runner.handlers
  built,      \* FALSE before New has returned the Runner
  newClient,  \* argument client of New
  newOpts,    \* argument opts of New: the loggers of the WithLogger options
  addCalls,   \* argument lists of the AddHandlers calls since the latest Run
              \* was entered (since construction before the first), in call order
  ctxs,       \* the contexts made by context.WithCancel, one per Run
  parentDone, \* the caller's context of the current Run is canceled
  pc,         \* position of Run: idle, loop, handle, client (the handler is
              \* inside its client call), ret, done, panic
  ctx,        \* Run's local ctx: index into ctxs
  ranged,     \* the slice Run's range loop iterates: r.handlers at loop entry
  idx,        \* position of the range loop in Run
  herr,       \* value returned by the handler that just ran
  ret,        \* value returned by Run ("none" while it has not returned)
  executed,   \* indices of the handlers invoked by the current Run, in order
  results,    \* values returned by the handlers of the current Run, in order
  skipped,    \* indices at which the current Run took the ctx.Done() case
  stoppers,   \* indices of the handlers that called Stop() in the current Run
  stopCalls,  \* number of Stop() calls during the current Run
  extStops,   \* number of those made from outside the handlers
  finalizers, \* obj.Finalizers of the resource the example handlers work on
  deleting,   \* obj.DeletionTimestamp != nil
  obj0,       \* finalizers of the resource when the current Run started
  calls       \* client calls of the current Run: <<operation, result>>, the
              \* result Pending while the call has not returned

vars == <<stop, client, log, handlers, built, newClient, newOpts, addCalls,
          ctxs, parentDone, pc, ctx, ranged, idx, herr, ret, executed,
          results, skipped, stoppers, stopCalls, extStops, finalizers, deleting,
          obj0, calls>>

(* ----------------------------- helpers -------------------------------- *)
RECURSIVE Flatten(_)
Flatten(ss) == IF ss = <<>> THEN <<>> ELSE Head(ss) \o Flatten(Tail(ss))

SeqsUpTo(S, n) == UNION {[1..k -> S] : k \in 0..n}

Iota(n) == [i \in 1..n |-> i]

(* ------------------------- context package ---------------------------- *)
\* a context that has not been canceled
Background == [err |-> Nil, closes |-> 0]

\* variant of the CancelFunc that works as a toggle: a call on a canceled
\* context makes it live again
cancel_Toggles(cs, k) ==
  IF cs[k].err # Nil THEN [cs EXCEPT ![k] = [err |-> Nil, closes |-> @.closes]]
  ELSE [cs EXCEPT ![k] = [err |-> "Canceled", closes |-> @.closes + 1]]

\* the CancelFunc of context k: the first call sets the error and closes the
\* Done channel, later calls do nothing
cancel(cs, k) ==
  IF cs[k].err # Nil THEN cs
  ELSE [cs EXCEPT ![k] = [err |-> "Canceled", closes |-> @.closes + 1]]

\* context.WithCancel(parent): a new child context; a parent that is already
\* canceled cancels the child at once
WithCancel(cs, pdone) ==
  LET cs1 == Append(cs, Background)
  IN  IF pdone THEN cancel(cs1, Len(cs1)) ELSE cs1

\* case <-ctx.Done() is ready
Done(cs, k) == cs[k].err # Nil

(* --------------------------- controllerutil --------------------------- *)
ContainsFinalizer(fs, key) == \E i \in DOMAIN fs : fs[i] = key

AddFinalizer(fs, key) == IF ContainsFinalizer(fs, key) THEN fs ELSE Append(fs, key)

RemoveFinalizer(fs, key) == SelectSeq(fs, LAMBDA e : e # key)

(* ------------------------------- State -------------------------------- *)
\* what a handler can reach through *State and its captured object:
\*   stop, ctxs   the cancel func and the contexts it acts on
\*   fins         obj.Finalizers
\*   calls        calls made through s.Client()
\*   nstop        Stop() calls made
\*   panic        a nil func was called

\* variant of Stop that unwinds the calling handler with a panic
Stop_Unwinds(w) == [w EXCEPT !.panic = TRUE]

\* variant of Stop that never calls the cancel func
Stop_Noop(w) ==
  IF w.panic THEN w ELSE [w EXCEPT !.nstop = @ + 1]

\* variant of Stop that clears s.stop after calling it
Stop_Unbinds(w) ==
  IF w.panic THEN w
  ELSE IF w.stop = NilFunc THEN [w EXCEPT !.panic = TRUE]
  ELSE [w EXCEPT !.ctxs = cancel(w.ctxs, w.stop), !.nstop = @ + 1,
                 !.stop = NilFunc]

\* State.Stop: s.stop()
Stop(w) ==
  IF w.panic THEN w
  ELSE IF w.stop = NilFunc THEN [w EXCEPT !.panic = TRUE]
  ELSE [w EXCEPT !.ctxs = cancel(w.ctxs, w.stop), !.nstop = @ + 1]

\* State.Log, State.Client
Log(s) == s.log
Client(s) == s.client

(* ------------------------------ handlers ------------------------------ *)
\* what a handler hands back: w is the world it leaves, wait tells that it
\* is inside a client call that has not returned, err is the value it
\* returns (read only when wait is FALSE)

\* exampleFunc: prints and returns nil
exampleFunc(w) == [w |-> w, wait |-> FALSE, err |-> Nil]

\* a HandlerFunc that returns an error
errorFunc(w) == [w |-> w, wait |-> FALSE, err |-> ErrHandler]

\* a HandlerFunc that calls s.Stop() n times and returns nil
RECURSIVE StopTimes(_, _)
StopTimes(w, n) == IF n = 0 THEN w ELSE StopTimes(Stop(w), n - 1)

stopFunc(w, n) == [w |-> StopTimes(w, n), wait |-> FALSE, err |-> Nil]

\* a client call has returned res: the record of the call gets its result
ClientReturned(cs, res) == [cs EXCEPT ![Len(cs)] = <<@[1], res>>]

\* FinalizerHandler(obj, key) up to the point where it is inside
\* s.Client().Update: the finalizer is on the object, the deferred s.Stop()
\* has not run
FinalizerHandler(w, key) ==
  IF ~ContainsFinalizer(w.fins, key)
  THEN [w |-> [w EXCEPT !.fins = AddFinalizer(@, key),
                        !.calls = Append(@, <<"Update", Pending>>)],
        wait |-> TRUE, err |-> Nil]
  ELSE [w |-> w, wait |-> FALSE, err |-> Nil]

\* variant of the end of FinalizerHandler without the deferred s.Stop()
FinalizerHandlerReturn_NoStop(w, res) ==
  [w |-> [w EXCEPT !.calls = ClientReturned(@, res)], wait |-> FALSE,
   err |-> res]

\* FinalizerHandler from the return of s.Client().Update with res: return
\* res, then the deferred s.Stop()
FinalizerHandlerReturn(w, res) ==
  [w |-> Stop([w EXCEPT !.calls = ClientReturned(@, res)]), wait |-> FALSE,
   err |-> res]

\* variant of DeletionHandler without ctrl.RemoveFinalizer
DeletionHandler_KeepsFinalizer(w, del, final) ==
  IF ~del
  THEN [w |-> w, wait |-> FALSE, err |-> Nil]
  ELSE [w |-> [w EXCEPT !.calls = Append(@, <<"Delete", Pending>>)],
        wait |-> TRUE, err |-> Nil]

\* DeletionHandler(obj, final) up to the point where it is inside
\* s.Client().Delete: the finalizer is off the object, the deferred s.Stop()
\* has not run
DeletionHandler(w, del, final) ==
  IF ~del
  THEN [w |-> w, wait |-> FALSE, err |-> Nil]
  ELSE [w |-> [w EXCEPT !.fins = RemoveFinalizer(@, final),
                        !.calls = Append(@, <<"Delete", Pending>>)],
        wait |-> TRUE, err |-> Nil]

\* variant of the end of DeletionHandler that returns nil whatever Delete
\* returns
DeletionHandlerReturn_DropsResult(w, res) ==
  [w |-> Stop([w EXCEPT !.calls = ClientReturned(@, res)]), wait |-> FALSE,
   err |-> Nil]

\* DeletionHandler from the return of s.Client().Delete with res: return
\* res, then the deferred s.Stop()
DeletionHandlerReturn(w, res) ==
  [w |-> Stop([w EXCEPT !.calls = ClientReturned(@, res)]), wait |-> FALSE,
   err |-> res]

\* HandlerFunc.Handle: h(ctx, s) until it returns or waits in a client call;
\* n tells how often the stopping handler calls s.Stop()
Handle(h, w, del, n) ==
  CASE h = "noop"      -> exampleFunc(w)
    [] h = "err"       -> errorFunc(w)
    [] h = "stop"      -> stopFunc(w, n)
    [] h = "finalizer" -> FinalizerHandler(w, Key)
    [] h = "deletion"  -> DeletionHandler(w, del, Key)

\* the rest of h(ctx, s) once its client call has returned; ok tells whether
\* the call succeeded
HandleReturn(h, w, ok) ==
  CASE h = "finalizer" -> FinalizerHandlerReturn(w, IF ok THEN Nil ELSE ErrUpdate)
    [] h = "deletion"  -> DeletionHandlerReturn(w, IF ok THEN Nil ELSE ErrDelete)

(* ------------------------------ options ------------------------------- *)
\* WithLogger(log): the option that sets s.log
WithLogger(l) == [field |-> "log", value |-> l]

\* opt(&s)
ApplyOption(s, opt) ==
  IF opt.field = "log" THEN [s EXCEPT !.log = opt.value] ELSE s

\* variant of the option loop that walks opts from the last to the first
RECURSIVE ApplyOptions_Backwards(_, _)
ApplyOptions_Backwards(s, opts) ==
  IF opts = <<>> THEN s
  ELSE ApplyOptions_Backwards(ApplyOption(s, opts[Len(opts)]),
                              SubSeq(opts, 1, Len(opts) - 1))

\* for _, opt := range opts { opt(&s) }
RECURSIVE ApplyOptions(_, _)
ApplyOptions(s, opts) ==
  IF opts = <<>> THEN s ELSE ApplyOptions(ApplyOption(s, Head(opts)), Tail(opts))

\* New(client, opts...)
New(c, opts) ==
  [handlers |-> <<>>,
   state |-> ApplyOptions([stop |-> NilFunc, client |-> c, log |-> ZeroLogger], opts)]

(* ------------------------------- Runner ------------------------------- *)
\* variant of the entry of Run that wraps the context of the previous Run
RunBind_Chains(cs, pdone) ==
  LET cs1 == WithCancel(cs, pdone \/ (cs # <<>> /\ Done(cs, Len(cs))))
  IN  [ctxs |-> cs1, ctx |-> Len(cs1), stop |-> Len(cs1)]

\* variant of the entry of Run without r.state.stop = cancel
RunBind_Unbound(cs, pdone) ==
  LET cs1 == WithCancel(cs, pdone)
  IN  [ctxs |-> cs1, ctx |-> Len(cs1), stop |-> NilFunc]

\* Run, entry: ctx, cancel := context.WithCancel(ctx); r.state.stop = cancel
RunBind(cs, pdone) ==
  LET cs1 == WithCancel(cs, pdone)
  IN  [ctxs |-> cs1, ctx |-> Len(cs1), stop |-> Len(cs1)]

\* variant of the Done case that returns ctx.Err()
RunBreak_ReturnsErr(i) == [pc |-> "done", idx |-> i, ret |-> "Canceled"]

\* Run, case <-ctx.Done(): break  -- leaves the select statement
RunBreak(i) == [pc |-> "loop", idx |-> i + 1, ret |-> "none"]

\* variant of the error check that ends Run with nil on an error
RunAfterHandle_ReturnsNil(err, i) ==
  IF err # Nil THEN [pc |-> "done", idx |-> i, ret |-> Nil]
  ELSE [pc |-> "loop", idx |-> i + 1, ret |-> "none"]

\* variant of the error check that returns whatever the handler returned
RunAfterHandle_AlwaysReturns(err, i) == [pc |-> "done", idx |-> i, ret |-> err]

\* variant of the error check that drops the error and goes on
RunAfterHandle_DropsError(err, i) == [pc |-> "loop", idx |-> i + 1, ret |-> "none"]

\* Run, after h.Handle: if err != nil { return err }
RunAfterHandle(err, i) ==
  IF err # Nil THEN [pc |-> "done", idx |-> i, ret |-> err]
  ELSE [pc |-> "loop", idx |-> i + 1, ret |-> "none"]

\* variant of AddHandlers that puts the new handlers in front
Append_handlers_InFront(old, hs) == hs \o old

\* Runner.AddHandlers: r.handlers = append(r.handlers, handler...)
Append_handlers(old, hs) == old \o hs

Running == pc \in {"loop", "handle", "client", "ret"}

(* ------------------------------ actions ------------------------------- *)
\* func New, called with the arguments newClient and newOpts
Construct ==
  /\ ~built
  /\ LET r == New(newClient, [i \in DOMAIN newOpts |-> WithLogger(newOpts[i])])
     IN  /\ client' = Client(r.state)
         /\ log' = Log(r.state)
         /\ stop' = r.state.stop
         /\ handlers' = r.handlers
  /\ built' = TRUE
  /\ UNCHANGED <<newClient, newOpts, addCalls, ctxs, parentDone, pc, ctx, ranged, idx,
                 herr, ret, executed, results, skipped, stoppers, stopCalls,
                 extStops, finalizers, deleting, obj0, calls>>

\* the argument lists of AddHandlers: the variadic handler ...HandlerFunc
AddArgs == SeqsUpTo(Kinds, MaxAdd) \ {<<>>}

\* Runner.AddHandlers(hs...): no condition in the code; it may be called
\* before, between and during the Run invocations (a Run in progress keeps
\* ranging over the slice it read at loop entry)
AddHandlers ==
  /\ built
  /\ pc # "panic"
  /\ Len(handlers) < MaxHandlers
  /\ \E hs \in AddArgs :
       /\ Len(handlers) + Len(hs) <= MaxHandlers
       /\ handlers' = Append_handlers(handlers, hs)
       /\ addCalls' = Append(addCalls, hs)
  /\ UNCHANGED <<stop, client, log, built, newClient, newOpts, ctxs,
                 parentDone, pc, ctx, ranged, idx, herr, ret, executed, results,
                 skipped, stoppers, stopCalls, extStops, finalizers, deleting,
                 obj0, calls>>

\* Runner.Run is called; the caller's context is canceled already or not
RunEnter ==
  /\ built
  /\ pc \in {"idle", "done"}
  /\ Len(ctxs) < MaxRuns
  /\ \E pdone \in BOOLEAN :
       LET b == RunBind(ctxs, pdone)
       IN  /\ parentDone' = pdone
           /\ ctxs' = b.ctxs
           /\ ctx' = b.ctx
           /\ stop' = b.stop
  /\ pc' = "loop"
  /\ ranged' = handlers
  /\ idx' = 1
  /\ herr' = Nil
  /\ ret' = "none"
  /\ executed' = <<>>
  /\ results' = <<>>
  /\ skipped' = <<>>
  /\ stoppers' = {}
  /\ stopCalls' = 0
  /\ extStops' = 0
  /\ obj0' = finalizers
  /\ calls' = <<>>
  /\ addCalls' = <<>>
  /\ UNCHANGED <<client, log, handlers, built, newClient, newOpts,
                 finalizers, deleting>>

\* Run, the select statement finds ctx.Done() closed
RunSkip ==
  /\ pc = "loop"
  /\ idx <= Len(ranged)
  /\ Done(ctxs, ctx)
  /\ skipped' = Append(skipped, idx)
  /\ LET n == RunBreak(idx)
     IN  /\ pc' = n.pc
         /\ idx' = n.idx
         /\ ret' = n.ret
  /\ UNCHANGED <<stop, client, log, handlers, built, newClient, newOpts,
                 addCalls, ctxs, parentDone, ctx, ranged, herr, executed, results,
                 stoppers, stopCalls, extStops, finalizers, deleting, obj0,
                 calls>>

\* Run, the select statement takes the default case and calls h.Handle
RunCall ==
  /\ pc = "loop"
  /\ idx <= Len(ranged)
  /\ ~Done(ctxs, ctx)
  /\ pc' = "handle"
  /\ executed' = Append(executed, idx)
  /\ UNCHANGED <<stop, client, log, handlers, built, newClient, newOpts,
                 addCalls, ctxs, parentDone, ctx, ranged, idx, herr, ret, results,
                 skipped, stoppers, stopCalls, extStops, finalizers, deleting,
                 obj0, calls>>

\* the handler called by Run runs until it returns or is inside its client
\* call
HandlerRuns ==
  /\ pc = "handle"
  /\ \E n \in 1..MaxStopCalls :
       LET w0 == [stop |-> stop, ctxs |-> ctxs, fins |-> finalizers,
                  calls |-> calls, nstop |-> 0, panic |-> FALSE]
           r == Handle(ranged[idx], w0, deleting, n)
       IN  /\ stop' = r.w.stop
           /\ ctxs' = r.w.ctxs
           /\ finalizers' = r.w.fins
           /\ calls' = r.w.calls
           /\ stopCalls' = stopCalls + r.w.nstop
           /\ stoppers' = IF r.w.nstop > 0 THEN stoppers \cup {idx} ELSE stoppers
           /\ IF r.w.panic
              THEN /\ pc' = "panic"
                   /\ UNCHANGED <<herr, results>>
              ELSE IF r.wait
              THEN /\ pc' = "client"
                   /\ UNCHANGED <<herr, results>>
              ELSE /\ pc' = "ret"
                   /\ herr' = r.err
                   /\ results' = Append(results, r.err)
  /\ UNCHANGED <<client, log, handlers, built, newClient, newOpts,
                 addCalls, parentDone, ctx, ranged, idx, ret, executed, skipped,
                 extStops, deleting, obj0>>

\* the client call the handler waits in returns, and the handler returns
\* after its deferred s.Stop()
ClientReturns ==
  /\ pc = "client"
  /\ \E ok \in BOOLEAN :
       LET w0 == [stop |-> stop, ctxs |-> ctxs, fins |-> finalizers,
                  calls |-> calls, nstop |-> 0, panic |-> FALSE]
           r == HandleReturn(ranged[idx], w0, ok)
       IN  /\ stop' = r.w.stop
           /\ ctxs' = r.w.ctxs
           /\ finalizers' = r.w.fins
           /\ calls' = r.w.calls
           /\ stopCalls' = stopCalls + r.w.nstop
           /\ stoppers' = IF r.w.nstop > 0 THEN stoppers \cup {idx} ELSE stoppers
           /\ IF r.w.panic
              THEN /\ pc' = "panic"
                   /\ UNCHANGED <<herr, results>>
              ELSE /\ pc' = "ret"
                   /\ herr' = r.err
                   /\ results' = Append(results, r.err)
  /\ UNCHANGED <<client, log, handlers, built, newClient, newOpts,
                 addCalls, parentDone, ctx, ranged, idx, ret, executed, skipped,
                 extStops, deleting, obj0>>

\* Run acts on the value the handler returned
RunAfter ==
  /\ pc = "ret"
  /\ LET n == RunAfterHandle(herr, idx)
     IN  /\ pc' = n.pc
         /\ idx' = n.idx
         /\ ret' = n.ret
  /\ UNCHANGED <<stop, client, log, handlers, built, newClient, newOpts,
                 addCalls, ctxs, parentDone, ctx, ranged, herr, executed, results,
                 skipped, stoppers, stopCalls, extStops, finalizers, deleting,
                 obj0, calls>>

\* variant of the final return that also empties r.handlers
RunReturnNil_ClearsHandlers ==
  /\ pc = "loop"
  /\ idx > Len(ranged)
  /\ pc' = "done"
  /\ ret' = Nil
  /\ handlers' = <<>>
  /\ UNCHANGED <<stop, client, log, built, newClient, newOpts, addCalls, ctxs,
                 parentDone, ctx, ranged, idx, herr, executed, results,
                 skipped, stoppers, stopCalls, extStops, finalizers, deleting,
                 obj0, calls>>

\* variant of the final return after a deferred cancel()
RunReturnNil_Cancels ==
  /\ pc = "loop"
  /\ idx > Len(ranged)
  /\ pc' = "done"
  /\ ret' = Nil
  /\ ctxs' = cancel(ctxs, ctx)
  /\ UNCHANGED <<stop, client, log, handlers, built, newClient, newOpts,
                 addCalls, parentDone, ctx, ranged, idx, herr, executed,
                 results, skipped, stoppers, stopCalls, extStops, finalizers,
                 deleting, obj0, calls>>

\* Run, the range loop is exhausted: return nil
RunReturnNil ==
  /\ pc = "loop"
  /\ idx > Len(ranged)
  /\ pc' = "done"
  /\ ret' = Nil
  /\ UNCHANGED <<stop, client, log, handlers, built, newClient, newOpts,
                 addCalls, ctxs, parentDone, ctx, ranged, idx, herr, executed, results,
                 skipped, stoppers, stopCalls, extStops, finalizers, deleting,
                 obj0, calls>>

\* State.Stop called through a *State reference from outside the handlers
ExternalStop ==
  /\ built
  /\ pc # "panic"
  /\ extStops < MaxExtStops
  /\ LET w0 == [stop |-> stop, ctxs |-> ctxs, fins |-> finalizers,
                calls |-> calls, nstop |-> 0, panic |-> FALSE]
         w1 == Stop(w0)
     IN  /\ stop' = w1.stop
         /\ ctxs' = w1.ctxs
         /\ stopCalls' = stopCalls + w1.nstop
         /\ extStops' = extStops + 1
         /\ pc' = IF w1.panic THEN "panic" ELSE pc
  /\ UNCHANGED <<client, log, handlers, built, newClient, newOpts,
                 addCalls, parentDone, ctx, ranged, idx, herr, ret, executed, results,
                 skipped, stoppers, finalizers, deleting, obj0, calls>>

\* the caller cancels the context it passed to Run while Run is in progress
CancelCaller ==
  /\ Running
  /\ ~parentDone
  /\ parentDone' = TRUE
  /\ ctxs' = cancel(ctxs, ctx)
  /\ UNCHANGED <<stop, client, log, handlers, built, newClient, newOpts,
                 addCalls, pc, ctx, ranged, idx, herr, ret, executed, results, skipped,
                 stoppers, stopCalls, extStops, finalizers, deleting, obj0,
                 calls>>

(* --------------------------- specifications --------------------------- *)
\* the resources of TestState_Run: <<finalizers, has a deletion timestamp>>
TestRules == {<<<<>>, FALSE>>, <<<<Key>>, FALSE>>, <<<<Key>>, TRUE>>}

\* the Runner of TestState_Run: New(c, WithLogger(zap.New())) on each of the
\* test's resources
Init ==
  /\ newClient = "c1"
  /\ newOpts = <<"L1">>
  /\ built = TRUE
  /\ LET r == New(newClient, [i \in DOMAIN newOpts |-> WithLogger(newOpts[i])])
     IN  /\ client = Client(r.state)
         /\ log = Log(r.state)
         /\ stop = r.state.stop
         /\ handlers = r.handlers
  /\ addCalls = <<>>
  /\ ctxs = <<>>
  /\ parentDone = FALSE
  /\ pc = "idle"
  /\ ctx = 0
  /\ ranged = <<>>
  /\ idx = 0
  /\ herr = Nil
  /\ ret = "none"
  /\ executed = <<>>
  /\ results = <<>>
  /\ skipped = <<>>
  /\ stoppers = {}
  /\ stopCalls = 0
  /\ extStops = 0
  /\ \E rule \in TestRules : finalizers = rule[1] /\ deleting = rule[2]
  /\ obj0 = finalizers
  /\ calls = <<>>

Next ==
  \/ AddHandlers
  \/ RunEnter
  \/ RunSkip
  \/ RunCall
  \/ HandlerRuns
  \/ ClientReturns
  \/ RunAfter
  \/ RunReturnNil
  \/ ExternalStop
  \/ CancelCaller

Spec == Init /\ [][Next]_vars

\* the next step of a Run in progress, the return of the called handler and
\* of its client call included
RunStep ==
  RunSkip \/ RunCall \/ HandlerRuns \/ ClientReturns \/ RunAfter \/ RunReturnNil

\* the chain is put together by one AddHandlers call, as in TestState_Run
AddHandlersOnce == handlers = <<>> /\ AddHandlers

NextLive ==
  \/ AddHandlersOnce
  \/ RunEnter
  \/ RunStep
  \/ ExternalStop
  \/ CancelCaller

\* Run is straight-line code on the caller's goroutine: a Run in progress
\* takes its next step, and a handler that was called returns (so does the
\* client call it makes)
SpecLive == Init /\ [][NextLive]_vars /\ WF_vars(RunStep)

\* New on every client and every list of up to MaxOpts WithLogger options
InitNew ==
  /\ newClient \in Clients
  /\ newOpts \in SeqsUpTo(Loggers, MaxOpts)
  /\ built = FALSE
  /\ client = NilClient
  /\ log = ZeroLogger
  /\ stop = NilFunc
  /\ handlers = <<>>
  /\ addCalls = <<>>
  /\ ctxs = <<>>
  /\ parentDone = FALSE
  /\ pc = "idle"
  /\ ctx = 0
  /\ ranged = <<>>
  /\ idx = 0
  /\ herr = Nil
  /\ ret = "none"
  /\ executed = <<>>
  /\ results = <<>>
  /\ skipped = <<>>
  /\ stoppers = {}
  /\ stopCalls = 0
  /\ extStops = 0
  /\ finalizers = <<>>
  /\ deleting = FALSE
  /\ obj0 = <<>>
  /\ calls = <<>>

NextNew == Construct

SpecNew == InitNew /\ [][NextNew]_vars

(* ------------------------------ properties ---------------------------- *)
\* no handler of the current Run returned an error, nobody called Stop() and
\* the caller's context is not canceled
CleanRun ==
  /\ stopCalls = 0
  /\ ~parentDone
  /\ \A i \in DOMAIN results : results[i] = Nil

\* C1: a Run in which no handler returns an error, nobody calls Stop() and
\* the caller's context is not canceled returns nil after it has executed
\* every handler exactly once, in the order in which they were added.
C1_CleanRunExecutesAll ==
  (pc = "done" /\ CleanRun) =>
    /\ ret = Nil
    /\ executed = Iota(Len(ranged))
    /\ ranged = SubSeq(handlers, 1, Len(ranged))

C1_Witness ==
  /\ pc = "done"
  /\ CleanRun
  /\ Len(ranged) = 3
  /\ executed = <<1, 2, 3>>
  /\ ret = Nil

\* C2: when handler i returns a non-nil error E, Run returns exactly E,
\* handlers 1..i have each executed once, and no handler after i is executed.
C2_ErrorAborts ==
  \A i \in DOMAIN results :
    results[i] # Nil =>
      /\ executed = Iota(i)
      /\ pc \in {"ret", "done"}
      /\ pc = "done" => ret = results[i]

C2_Witness ==
  /\ pc = "done"
  /\ Len(ranged) = 3
  /\ Len(results) = 2
  /\ results[2] = ErrHandler
  /\ ret = ErrHandler

\* C3: when handler i calls Stop() and returns nil, Run returns nil and no
\* handler after i is executed in that Run.
C3_StopSkipsRest ==
  \A i \in stoppers :
    (i \in DOMAIN results /\ results[i] = Nil) =>
      /\ executed = Iota(i)
      /\ pc = "done" => ret = Nil

C3_Witness ==
  /\ pc = "done"
  /\ Len(ranged) = 3
  /\ stoppers = {1}
  /\ extStops = 0
  /\ ~parentDone
  /\ results = <<Nil>>
  /\ executed = <<1>>
  /\ ret = Nil

\* C4: Stop() is idempotent within a Run: a call with a bound cancel func
\* never panics, and after any number of calls the contexts are as after
\* one call (the stopped context canceled, its Done channel closed once).
C4_StopIdempotent ==
  [][(stopCalls' > stopCalls /\ stop # NilFunc) =>
       /\ pc' # "panic"
       /\ ctxs' = [ctxs EXCEPT ![stop] = [err |-> "Canceled", closes |-> 1]]]_vars

C4_Witness ==
  /\ stopCalls >= 3
  /\ extStops >= 1
  /\ \E i \in stoppers : ranged[i] = "stop"
  /\ pc # "panic"
  /\ ctxs[ctx].closes = 1

\* C5: AddHandlers is cumulative and order-preserving: before the first Run
\* the chain is the concatenation of the argument lists of all calls in call
\* order; at any time it is the chain the latest Run was entered with
\* followed by the argument lists of the calls made since, in call order; a
\* Run ranges over the chain as it is when the Run is entered, and the
\* handlers it executes are, in order, the first handlers of that chain.
C5_AddHandlersConcatenates ==
  /\ [](ctxs = <<>> => handlers = Flatten(addCalls))
  /\ [](handlers = ranged \o Flatten(addCalls))
  /\ [][(pc \in {"idle", "done"} /\ pc' = "loop") =>
          ranged' = ranged \o Flatten(addCalls)]_vars
  /\ []([j \in DOMAIN executed |-> ranged[executed[j]]]
          = SubSeq(handlers, 1, Len(executed)))

C5_Witness ==
  /\ ctxs = <<>>
  /\ pc = "idle"
  /\ Len(addCalls) = 2
  /\ Len(addCalls[1]) = 2
  /\ addCalls[2] = <<"stop">>
  /\ handlers = <<"noop", "deletion", "stop">>

\* C6: every Run has a fresh cancellation scope: in a Run that follows a Run
\* whose scope was canceled, with a caller context that is not canceled and
\* no Stop() since it began, no handler is skipped, the scope is not
\* canceled and execution starts at the first handler.
C6_FreshScopePerRun ==
  (/\ pc # "idle"
   /\ \E k \in 1..(ctx - 1) : Done(ctxs, k)
   /\ ~parentDone
   /\ stopCalls = 0) =>
     /\ skipped = <<>>
     /\ ~Done(ctxs, ctx)
     /\ executed = Iota(Len(executed))
     /\ (pc = "done" /\ \A i \in DOMAIN results : results[i] = Nil) =>
          executed = Iota(Len(ranged))

C6_Witness ==
  /\ ctx = 2
  /\ ctxs[1].err # Nil
  /\ ~parentDone
  /\ stopCalls = 0
  /\ pc = "done"
  /\ executed = <<1, 2, 3>>

\* C7: when the context is canceled at a handler boundary (also when the
\* caller's context was canceled before the first handler), Run executes no
\* handler at or after that boundary and returns nil.
C7_CanceledReturnsNil ==
  /\ [](skipped # <<>> =>
          /\ \A j \in DOMAIN executed : executed[j] < skipped[1]
          /\ pc \in {"loop", "done"}
          /\ pc = "done" => ret = Nil)
  /\ [][(pc = "loop" /\ idx <= Len(ranged) /\ Done(ctxs, ctx)) =>
          (executed' = executed /\ pc' # "handle")]_vars

C7_Witness ==
  /\ pc = "done"
  /\ parentDone
  /\ extStops = 0
  /\ stoppers = {}
  /\ Len(ranged) = 3
  /\ skipped = <<1, 2, 3>>
  /\ executed = <<>>
  /\ ret = Nil

\* C8: cancellation is observed only at handler boundaries: a handler in
\* progress when the context is canceled (inside its client call or not)
\* still returns its value to Run, Run acts on that value as usual, and the
\* first effect of the cancellation is that the next handler is skipped.
C8_CooperativeCancel ==
  [][(Running /\ Done(ctxs, ctx)) =>
       /\ (pc = "handle" /\ pc' # pc) =>
            \/ (pc' = "ret" /\ results' = Append(results, herr')
                            /\ executed' = executed)
            \/ (pc' = "client" /\ results' = results /\ executed' = executed)
       /\ (pc = "client" /\ pc' # pc) =>
            (pc' = "ret" /\ results' = Append(results, herr')
                         /\ herr' = calls'[Len(calls')][2]
                         /\ executed' = executed)
       /\ (pc = "ret" /\ pc' # pc) =>
            IF herr # Nil
            THEN pc' = "done" /\ ret' = herr /\ executed' = executed
            ELSE pc' = "loop" /\ idx' = idx + 1 /\ executed' = executed
       /\ (pc = "loop" /\ idx <= Len(ranged) /\ <<pc, idx>>' # <<pc, idx>>) =>
            (skipped' = Append(skipped, idx) /\ executed' = executed)]_vars

C8_Witness ==
  /\ pc = "ret"
  /\ Done(ctxs, ctx)
  /\ idx = 1
  /\ Len(ranged) = 3
  /\ ranged[1] = "err"
  /\ extStops = 1
  /\ herr = ErrHandler

\* C9: on a resource without a deletion timestamp and with a client whose
\* calls succeed, a Run over FinalizerHandler, DeletionHandler and no-op
\* handlers returns nil and leaves the finalizer on the resource; when it
\* was absent FinalizerHandler adds it, issues one Update and stops the
\* pipeline after itself, when it was present nothing changes and every
\* handler runs.
C9_FinalizerScenario ==
  (/\ pc = "done"
   /\ Len(ranged) >= 2
   /\ ranged[1] = "finalizer"
   /\ ranged[2] = "deletion"
   /\ \A i \in DOMAIN ranged : i > 2 => ranged[i] = "noop"
   /\ ~deleting
   /\ \A j \in DOMAIN calls : calls[j][2] = Nil
   /\ extStops = 0
   /\ ~parentDone) =>
     /\ ret = Nil
     /\ ContainsFinalizer(finalizers, Key)
     /\ IF ContainsFinalizer(obj0, Key)
        THEN /\ finalizers = obj0
             /\ calls = <<>>
             /\ stoppers = {}
             /\ executed = Iota(Len(ranged))
        ELSE /\ finalizers = Append(obj0, Key)
             /\ calls = <<<<"Update", Nil>>>>
             /\ stoppers = {1}
             /\ executed = <<1>>
             /\ skipped = [j \in 1..(Len(ranged) - 1) |-> j + 1]

C9_Witness ==
  /\ pc = "done"
  /\ ranged = <<"finalizer", "deletion", "noop">>
  /\ ~deleting
  /\ extStops = 0
  /\ ~parentDone
  /\ obj0 = <<>>
  /\ finalizers = <<Key>>
  /\ calls = <<<<"Update", Nil>>>>
  /\ executed = <<1>>
  /\ ret = Nil

\* C10: New applies its options in argument order, so the logger of the
\* last WithLogger option is the one State.Log() returns (the zero logger
\* when there is no option), and State.Client() returns the client passed
\* to New.
C10_NewAppliesOptionsInOrder ==
  built =>
    /\ client = newClient
    /\ log = IF newOpts = <<>> THEN ZeroLogger ELSE newOpts[Len(newOpts)]
    /\ stop = NilFunc
    /\ handlers = <<>>

C10_Witness ==
  /\ built
  /\ client = "c2"
  /\ Len(newOpts) = 3
  /\ newOpts[1] = "L2"
  /\ newOpts[2] = "L0"
  /\ newOpts[3] = "L1"
  /\ log = "L1"

\* C11: a handler that calls Stop() and returns a non-nil error E makes Run
\* return E, not nil: the error of a failed client call made by
\* FinalizerHandler or DeletionHandler, which both stop the pipeline, is the
\* value Run returns.
C11_StopDoesNotMaskError ==
  /\ \A i \in stoppers :
       (i \in DOMAIN results /\ results[i] # Nil) =>
         /\ pc \in {"ret", "done"}
         /\ pc = "done" => (ret = results[i] /\ ret # Nil)
  /\ \A j \in DOMAIN calls :
       (calls[j][2] # Nil /\ pc = "done") => ret = calls[j][2]

C11_Witness ==
  /\ pc = "done"
  /\ Len(ranged) = 3
  /\ ranged[2] = "deletion"
  /\ stoppers = {2}
  /\ Done(ctxs, ctx)
  /\ calls = <<<<"Delete", ErrDelete>>>>
  /\ ret = ErrDelete

\* C12: when Run finds the context canceled at a handler boundary the loop
\* ends there: the Done case is taken at most once in a Run, no remaining
\* handler is visited.
C12_LoopEndsAtFirstCancel == Len(skipped) <= 1

\* C13: State.stop is assigned once per Run, at its start: while Run is in
\* progress it holds the cancel func of that Run's context, it does not
\* change, and no Stop() call panics on a nil func.
C13_StopBoundDuringRun ==
  /\ [](Running => (stop = ctx /\ stop # NilFunc))
  /\ [][Running => (stop' = stop /\ pc' # "panic")]_vars
  /\ [][stop' # stop => (pc \in {"idle", "done"} /\ pc' = "loop" /\ stop' = ctx')]_vars

C13_Witness ==
  /\ pc = "ret"
  /\ ctx = 2
  /\ stop = 2
  /\ ranged[idx] = "stop"
  /\ idx \in stoppers
  /\ stopCalls = 2

\* the terminal states of a Run invocation
Completed ==
  /\ pc = "done"
  /\ executed = Iota(Len(ranged))
  /\ \A i \in DOMAIN results : results[i] = Nil
  /\ ret = Nil

Aborted ==
  /\ pc = "done"
  /\ results # <<>>
  /\ results[Len(results)] # Nil
  /\ ret = results[Len(results)]

Stopped ==
  /\ pc = "done"
  /\ skipped # <<>>
  /\ ret = Nil

\* C14: every Run in which the called handlers return leaves Running and
\* ends in exactly one of Completed, Aborted and Stopped; Run never returns
\* in another state, and the terminal state it reached is not left while no
\* new Run starts.
C14_RunTerminates ==
  /\ Running ~> pc = "done"
  /\ [](pc = "done" =>
          /\ Completed \/ Aborted \/ Stopped
          /\ ~(Completed /\ Aborted)
          /\ ~(Completed /\ Stopped)
          /\ ~(Aborted /\ Stopped))
  /\ [][(pc = "done" /\ pc' = "done") =>
          /\ Completed' = Completed
          /\ Aborted' = Aborted
          /\ Stopped' = Stopped]_vars
  /\ [][pc = "done" => pc' \in {"done", "loop"}]_vars

C14_Witness ==
  /\ Stopped
  /\ ranged = <<"finalizer", "noop">>
  /\ executed = <<1>>
  /\ skipped = <<2>>
  /\ ctx = 2

\* C15: DeletionHandler on a resource without a deletion timestamp returns
\* nil and changes nothing (no Stop(), no client call); on a resource with
\* one it removes the finalizer and issues one Delete, without a Stop()
\* before Delete has returned; when Delete returns it returns what Delete
\* returned and stops the pipeline, so that no later handler runs; a Run
\* issues no more Delete calls than it executed DeletionHandlers.
C15_DeletionHandler ==
  /\ [][(pc = "handle" /\ ranged[idx] = "deletion" /\ pc' # pc) =>
          IF ~deleting
          THEN /\ pc' = "ret"
               /\ herr' = Nil
               /\ UNCHANGED <<finalizers, calls, ctxs, stopCalls, stoppers>>
          ELSE /\ pc' = "client"
               /\ ~ContainsFinalizer(finalizers', Key)
               /\ calls' = Append(calls, <<"Delete", Pending>>)
               /\ UNCHANGED <<ctxs, stopCalls, stoppers>>]_vars
  /\ [][(pc = "client" /\ ranged[idx] = "deletion" /\ pc' # pc) =>
          /\ pc' = "ret"
          /\ finalizers' = finalizers
          /\ Len(calls') = Len(calls)
          /\ calls'[Len(calls')][1] = "Delete"
          /\ calls'[Len(calls')][2] \in {Nil, ErrDelete}
          /\ herr' = calls'[Len(calls')][2]
          /\ stopCalls' = stopCalls + 1
          /\ idx \in stoppers'
          /\ Done(ctxs', ctx)]_vars
  /\ [](Len(SelectSeq(calls, LAMBDA c : c[1] = "Delete"))
          <= Len(SelectSeq(executed, LAMBDA i : ranged[i] = "deletion")))
  /\ [](\A i \in stoppers :
          ranged[i] = "deletion" =>
            /\ executed = Iota(i)
            /\ pc = "done" => ret = results[i])

C15_Witness ==
  /\ pc = "done"
  /\ ranged = <<"noop", "deletion", "noop">>
  /\ deleting
  /\ obj0 = <<Key>>
  /\ finalizers = <<>>
  /\ calls = <<<<"Delete", Nil>>>>
  /\ stoppers = {2}
  /\ executed = <<1, 2>>
  /\ skipped = <<3>>
  /\ ret = Nil

\* C16: Run changes nothing of the Runner but State.stop: no step of a Run
\* (a step that moves Run's position), whatever its outcome, changes the
\* handler chain or the client and logger of the State; after Run the
\* client and logger are the ones of construction and the chain is the one
\* the Run was entered with, followed only by what AddHandlers calls made
\* in the meantime appended (the very same chain when there were none).
C16_RunFrame ==
  /\ [][(pc' # pc \/ idx' # idx) => UNCHANGED <<handlers, client, log>>]_vars
  /\ [](pc = "done" =>
          /\ handlers = ranged \o Flatten(addCalls)
          /\ addCalls = <<>> => handlers = ranged
          /\ client = newClient
          /\ log = newOpts[1])

C16_Witness ==
  /\ Aborted
  /\ ctx = 2
  /\ Len(handlers) = 3
  /\ handlers = ranged
  /\ addCalls = <<>>
  /\ executed = <<1, 2>>
  /\ client = "c1"
  /\ log = "L1"

\* C17: at every moment of a Run the executed handlers are the first
\* handlers of the chain, each executed once, and the skipped ones follow
\* them without a gap: once a handler was skipped the context stays
\* canceled and no handler is executed any more.
C17_ExecutedIsPrefix ==
  /\ executed = Iota(Len(executed))
  /\ Len(executed) + Len(skipped) <= Len(ranged)
  /\ skipped = [j \in 1..Len(skipped) |-> Len(executed) + j]
  /\ skipped # <<>> => (pc \in {"loop", "done"} /\ Done(ctxs, ctx))

C17_Witness ==
  /\ pc = "done"
  /\ parentDone
  /\ stopCalls = 0
  /\ Len(ranged) = 3
  /\ executed = <<1>>
  /\ skipped = <<2, 3>>

\* C18: the context of a Run is canceled only after a Stop() call made
\* since that Run began or after the caller's context was canceled; Run
\* itself does not cancel it, so after a Run that completed or aborted
\* without either the context is still live.
C18_RunNeverCancels ==
  (ctx # 0 /\ Done(ctxs, ctx)) => (stopCalls > 0 \/ parentDone)

C18_Witness ==
  /\ Completed
  /\ Len(ranged) = 3
  /\ stopCalls = 0
  /\ ~parentDone
  /\ ~Done(ctxs, ctx)
  /\ ctxs[ctx].closes = 0

====
